---------------------------- MODULE Spec2Model ----------------------------
(***************************************************************************)
(* ConfigProvider of package configuration: a JSON document held in a      *)
(* byte buffer, a registry of field definitions, environment overrides,    *)
(* validation, scoping and lazy materialisation of defaults.               *)
(*                                                                         *)
(* Go strings are sequences of one-character strings, so that case         *)
(* folding, wildcard escaping, path splitting and pattern matching are     *)
(* computed character by character as the code and its JSON library do.    *)
(***************************************************************************)
EXTENDS Integers, Sequences, FiniteSets, TLC

(***************************************************************************)
(* Bounds of the model.                                                    *)
(***************************************************************************)
\* Number of provider operations (get, set, removeScope, listScopes) a run performs.
MaxOps == 3

\* The goroutines that call the provider at the same time, and the calls they
\* make between them.
NumThreads == 2
MaxCalls == 3

(***************************************************************************)
(* Strings.                                                                *)
(***************************************************************************)
Str_a     == <<"a">>
Str_A     == <<"A">>
Str_b     == <<"b">>
Str_s     == <<"s">>
Str_aStar == <<"a", "*">>
Str_sStar == <<"s", "*">>
Str_us    == <<"u", "s">>
Str_eu    == <<"e", "u">>
Str_EU    == <<"E", "U">>
Str_xx    == <<"x", "x">>
Str_ev    == <<"e", "v">>
Empty     == <<>>

\* unicode simple case folding, restricted to the letters the model uses
FoldChar(c) ==
    CASE c = "A" -> "a"
      [] c = "B" -> "b"
      [] c = "E" -> "e"
      [] c = "S" -> "s"
      [] c = "U" -> "u"
      [] c = "X" -> "x"
      [] OTHER   -> c

\* strings.EqualFold
EqualFold(x, y) ==
    /\ Len(x) = Len(y)
    /\ \A i \in 1..Len(x) : FoldChar(x[i]) = FoldChar(y[i])

\* fmt.Sprintf("%s.%s", scope, key)
JoinPath(scope, key) == scope \o <<".">> \o key

\* escapeWildcards: regexp ([*?]) replaced by \$1
RECURSIVE escapeWildcards(_)
escapeWildcards(key) ==
    IF key = <<>> THEN <<>>
    ELSE IF Head(key) \in {"*", "?"}
         THEN <<"\\", Head(key)>> \o escapeWildcards(Tail(key))
         ELSE <<Head(key)>> \o escapeWildcards(Tail(key))

(***************************************************************************)
(* Values.  One record shape serves JSON values, Go values and buffers:    *)
(*   t : the kind, s : a string payload, n : a number payload,             *)
(*   m : the members of an object, in document order.                      *)
(***************************************************************************)
Val(t, s, n, m) == [t |-> t, s |-> s, n |-> n, m |-> m]

\* Go values (interface{})
GoNil        == Val("nil", <<>>, 0, <<>>)
GoString(s)  == Val("string", s, 0, <<>>)
GoInt(n)     == Val("int", <<>>, n, <<>>)
GoFloat64(n) == Val("float64", <<>>, n, <<>>)
GoMap(m)     == Val("map", <<>>, 0, m)

\* JSON values
JStr(s) == Val("jstr", s, 0, <<>>)
JNum(n) == Val("jnum", <<>>, n, <<>>)
JObj(m) == Val("jobj", <<>>, 0, m)

\* buffers: a nil slice, an empty slice (the JSON text ""), or an object
NilBuf   == Val("nilbuf", <<>>, 0, <<>>)
EmptyBuf == Val("emptybuf", <<>>, 0, <<>>)

Member(name, v) == [name |-> name, val |-> v]

\* encoding/json Marshal of the value handed to sjson.Set
Marshal(v) ==
    CASE v.t = "string" -> JStr(v.s)
      [] v.t = "int"    -> JNum(v.n)
      [] OTHER          -> JObj(v.m)

\* gjson Result.Value(): a JSON number is a float64, an object a map
ResultValue(j) ==
    CASE j.t = "jstr" -> GoString(j.s)
      [] j.t = "jnum" -> GoFloat64(j.n)
      [] OTHER        -> GoMap(j.m)

(***************************************************************************)
(* Paths of the JSON library.                                              *)
(***************************************************************************)
\* One component of a path: its text with the escapes removed, and whether
\* it holds an unescaped wildcard.
Comp(part, wild) == [part |-> part, wild |-> wild]

\* Splits a path at its unescaped dots.  A backslash makes the next character
\* literal and is dropped from the part; an unescaped * or ? marks the
\* component as a pattern (gjson parseObjectPath, sjson parsePath).
RECURSIVE ScanPath(_, _, _, _)
ScanPath(path, part, wild, done) ==
    IF path = <<>> THEN Append(done, Comp(part, wild))
    ELSE IF Head(path) = "\\" /\ Len(path) >= 2
         THEN ScanPath(Tail(Tail(path)), Append(part, path[2]), wild, done)
    ELSE IF Head(path) = "."
         THEN ScanPath(Tail(path), <<>>, FALSE, Append(done, Comp(part, wild)))
    ELSE ScanPath(Tail(path), Append(part, Head(path)),
                  wild \/ Head(path) \in {"*", "?"}, done)

SplitPath(path) == ScanPath(path, <<>>, FALSE, <<>>)

\* sjson: a path with an unescaped wildcard is not a simple path
IsSimplePath(comps) == \A i \in 1..Len(comps) : ~comps[i].wild

\* tidwall/match: * matches any run of characters, ? any one character
RECURSIVE Match(_, _)
Match(str, pat) ==
    IF pat = <<>> THEN str = <<>>
    ELSE IF Head(pat) = "*"
         THEN Match(str, Tail(pat)) \/ (str # <<>> /\ Match(Tail(str), pat))
         ELSE /\ str # <<>>
              /\ (Head(pat) = "?" \/ Head(pat) = Head(str))
              /\ Match(Tail(str), Tail(pat))

\* gjson: whether an object key matches a path component
KeyMatches(name, comp) ==
    IF comp.wild THEN Match(name, comp.part) ELSE name = comp.part

NotFound == [exists |-> FALSE, val |-> GoNil]
Found(j) == [exists |-> TRUE, val |-> j]

\* gjson parseObject: the members are tried in document order; a member that
\* matches the last component is the result; a member that matches an inner
\* component is searched when it is an object, and the scan goes on to the
\* next member when that search finds nothing.
RECURSIVE GetMembers(_, _)
GetMembers(m, comps) ==
    IF m = <<>> THEN NotFound
    ELSE LET h == Head(m) IN
         IF KeyMatches(h.name, comps[1])
         THEN IF Len(comps) = 1 THEN Found(h.val)
              ELSE LET inner == IF h.val.t = "jobj"
                                THEN GetMembers(h.val.m, Tail(comps))
                                ELSE NotFound
                   IN IF inner.exists THEN inner ELSE GetMembers(Tail(m), comps)
         ELSE GetMembers(Tail(m), comps)

\* gjson.Get(json, path); "@this" is the document itself
gjsonGet(json, path) ==
    IF json.t # "jobj" THEN NotFound
    ELSE GetMembers(json.m, SplitPath(path))

\* index of the member named name, 0 when there is none
IndexOf(m, name) ==
    IF \E i \in 1..Len(m) : m[i].name = name
    THEN CHOOSE i \in 1..Len(m) : m[i].name = name
    ELSE 0

\* sjson appendBuild: the nested objects of a path that does not exist yet
RECURSIVE Build(_, _)
Build(parts, j) ==
    IF parts = <<>> THEN j
    ELSE JObj(<<Member(Head(parts), Build(Tail(parts), j))>>)

\* sjson appendRawPaths for a set: an existing member is replaced in place (a
\* scalar on the way is replaced by an object), a new one is appended.
RECURSIVE SetMembers(_, _, _)
SetMembers(m, parts, j) ==
    LET i == IndexOf(m, Head(parts)) IN
    IF i = 0 THEN Append(m, Member(Head(parts), Build(Tail(parts), j)))
    ELSE IF Len(parts) = 1 THEN [m EXCEPT ![i].val = j]
    ELSE LET sub == IF m[i].val.t = "jobj" THEN m[i].val.m ELSE <<>>
         IN [m EXCEPT ![i].val = JObj(SetMembers(sub, Tail(parts), j))]

RemoveAt(m, i) == [k \in 1..(Len(m) - 1) |-> IF k < i THEN m[k] ELSE m[k + 1]]

\* sjson appendRawPaths for a delete: errNoChange (the members as they are)
\* when the path does not resolve.
RECURSIVE DeleteMembers(_, _)
DeleteMembers(m, parts) ==
    LET i == IndexOf(m, Head(parts)) IN
    IF i = 0 THEN m
    ELSE IF Len(parts) = 1 THEN RemoveAt(m, i)
    ELSE IF m[i].val.t = "jobj"
         THEN [m EXCEPT ![i].val = JObj(DeleteMembers(m[i].val.m, Tail(parts)))]
         ELSE m

Parts(comps) == [i \in 1..Len(comps) |-> comps[i].part]

SjsonOk(json)   == [err |-> "", json |-> json]
SjsonErr(e, json) == [err |-> e, json |-> json]

\* sjson.Set(json, path, value): the empty text is treated as {}
sjsonSet(json, path, value) ==
    LET comps == SplitPath(path) IN
    IF path = <<>> THEN SjsonErr("path cannot be empty", json)
    ELSE IF ~IsSimplePath(comps) THEN SjsonErr("complex path", json)
    ELSE SjsonOk(JObj(SetMembers(IF json.t = "jobj" THEN json.m ELSE <<>>,
                                 Parts(comps), Marshal(value))))

\* sjson.Delete(json, path)
sjsonDelete(json, path) ==
    LET comps == SplitPath(path) IN
    IF path = <<>> THEN SjsonErr("path cannot be empty", json)
    ELSE IF ~IsSimplePath(comps)
         THEN SjsonErr("cannot delete value from a complex path", json)
    ELSE IF json.t # "jobj" THEN SjsonOk(json)
    ELSE SjsonOk(JObj(DeleteMembers(json.m, Parts(comps))))

(***************************************************************************)
(* Field definitions (type FieldDefinition) and validation functions.      *)
(***************************************************************************)
NoValidation == [kind |-> "none", n |-> 0, caseSensitive |-> FALSE, allowed |-> <<>>]

\* the closure IntGreaterThan(greaterThan) returns
IntGreaterThanFunc(greaterThan) ==
    [kind |-> "IntGreaterThan", n |-> greaterThan, caseSensitive |-> FALSE, allowed |-> <<>>]

\* the closure StringInStrings(caseSensitive, allowedValues...) returns
StringInStringsFunc(caseSensitive, allowedValues) ==
    [kind |-> "StringInStrings", n |-> 0, caseSensitive |-> caseSensitive,
     allowed |-> allowedValues]

\* IntGreaterThan applied to a value: "" when it passes, else the error
IntGreaterThan(greaterThan, value) ==
    IF value.t # "int" THEN "is not an int"
    ELSE IF value.n > greaterThan THEN ""
    ELSE "is not greater than"

\* StringInStrings applied to a value: "" when it passes, else the error
StringInStrings(caseSensitive, allowedValues, value) ==
    IF value.t # "string" THEN "is not a string"
    ELSE IF \E i \in 1..Len(allowedValues) :
               \/ caseSensitive /\ value.s = allowedValues[i]
               \/ ~caseSensitive /\ EqualFold(value.s, allowedValues[i])
         THEN ""
         ELSE "not in allowed values"

\* v.ValidationFunc(key, value), for a ValidationFunc that is not nil
Validate(f, value) ==
    IF f.kind = "IntGreaterThan" THEN IntGreaterThan(f.n, value)
    ELSE StringInStrings(f.caseSensitive, f.allowed, value)

FieldDefinition(envVar, key, default, caseSensitive, validationFunc) ==
    [EnvVar |-> envVar, Key |-> key, Default |-> default,
     CaseSensitive |-> caseSensitive, ValidationFunc |-> validationFunc]

\* The definitions the model registers.
DRegion  == FieldDefinition("E", Str_a, GoString(Str_us), FALSE,
                            StringInStringsFunc(FALSE, <<Str_us, Str_eu>>))
DApiKey  == FieldDefinition("", Str_b, GoNil, FALSE, NoValidation)
DUpper   == FieldDefinition("", Str_A, GoString(Str_eu), TRUE, NoValidation)
DUpperCI == FieldDefinition("", Str_A, GoNil, FALSE, NoValidation)
DWild    == FieldDefinition("", Str_aStar, GoString(Str_xx), TRUE, NoValidation)
DCount   == FieldDefinition("", Str_b, GoInt(0), TRUE, IntGreaterThanFunc(0))

(***************************************************************************)
(* Construction options (type ConfigProviderOption).                       *)
(***************************************************************************)
OptExplicitValues    == [kind |-> "explicit", defs |-> <<>>, str |-> <<>>]
OptFieldDefinitions(defs) == [kind |-> "fields", defs |-> defs, str |-> <<>>]
OptFilePersistence   == [kind |-> "file", defs |-> <<>>, str |-> <<"f">>]
OptScope(s)          == [kind |-> "scope", defs |-> <<>>, str |-> s]

\* The backing file as the process may find it: absent, or left by an earlier run.
NoFile      == Val("nofile", <<>>, 0, <<>>)
EarlierFile == JObj(<<Member(Str_s, JObj(<<Member(Str_a, JStr(Str_xx))>>))>>)

\* A process: the options NewConfigProvider is called with, the environment
\* variables that are set and the backing file as it is found.
Setup(options, environ, found) == [opts |-> options, env |-> environ, file |-> found]

Setups ==
    { Setup(<<>>, {}, NoFile),
      Setup(<<OptFieldDefinitions(<<DRegion, DApiKey>>)>>, {}, NoFile),
      Setup(<<OptFieldDefinitions(<<DRegion, DApiKey>>)>>, {"E"}, NoFile),
      Setup(<<OptFieldDefinitions(<<DApiKey>>), OptExplicitValues>>, {}, NoFile),
      Setup(<<OptFieldDefinitions(<<DUpper>>), OptExplicitValues>>, {}, NoFile),
      Setup(<<OptScope(Str_s)>>, {}, NoFile),
      Setup(<<OptScope(Str_s), OptFieldDefinitions(<<DRegion>>)>>, {}, NoFile),
      Setup(<<OptFilePersistence>>, {}, EarlierFile),
      Setup(<<OptFilePersistence, OptFieldDefinitions(<<DRegion>>)>>, {}, NoFile),
      Setup(<<OptFieldDefinitions(<<DRegion, DUpper>>)>>, {}, NoFile),
      Setup(<<OptFieldDefinitions(<<DUpper, DRegion>>)>>, {}, NoFile),
      Setup(<<OptFieldDefinitions(<<DRegion>>), OptFieldDefinitions(<<DUpperCI>>)>>,
            {}, NoFile),
      Setup(<<OptFieldDefinitions(<<DRegion, DWild>>)>>, {}, NoFile),
      Setup(<<OptFieldDefinitions(<<DCount>>)>>, {}, NoFile) }

\* What the arguments of the calls are drawn from.
Keys        == {Str_a, Str_A, Str_b, Str_aStar}
CallScopes  == {Empty, Str_s}
ScopeNames  == {Str_s, Str_a, Str_sStar}
Values      == {GoString(Str_EU), GoInt(7)}

(***************************************************************************)
(* State.                                                                  *)
(***************************************************************************)
VARIABLES
    status,           \* "building", "ready", "failed" (NewConfigProvider returned an
                      \* error), "blocked" (the goroutine waits on mu for ever),
                      \* "exited" (log.Fatalf)
    opts,             \* the options NewConfigProvider has still to apply
    failedKey,        \* the key named by the error NewConfigProvider returned
    cfg,              \* ConfigProvider.cfg
    fields,           \* ConfigProvider.fields
    fileName,         \* ConfigProvider.fileName
    scope,            \* ConfigProvider.scope
    mu,               \* ConfigProvider.mu: TRUE while locked
    dirty,            \* ConfigProvider.dirty
    explicitValues,   \* ConfigProvider.explicitValues
    settingDefaults,  \* ConfigProvider.settingDefaults
    file,             \* the content of the backing file
    fault,            \* TRUE while reads and writes of the backing file fail
    env,              \* the environment variables that are set
    hist,             \* the calls made so far, with what each returned
    stack,            \* per goroutine, the frames of the methods it is in
    holder            \* the goroutine that holds ConfigProvider.mu, 0 for none

vars == <<status, opts, failedKey, cfg, fields, fileName, scope, mu, dirty, explicitValues,
          settingDefaults, file, fault, env, hist, stack, holder>>

Threads == 1..NumThreads

\* What Spec, whose calls are made one after another, leaves alone.
threads == <<stack, holder>>

config == <<opts, failedKey, fields, fileName, scope, explicitValues, env>>

\* os.LookupEnv
LookupEnv(name) == [ok |-> name \in env, val |-> Str_ev]

\* The part of the provider its methods change.
\* log lists, for the call under way, the file loads started ("load"), the
\* materialisations started ("defaults"), the definitions whose default was
\* handed to Set ("set", with the index of the definition) and the documents
\* written ("write").
Provider == [cfg |-> cfg, dirty |-> dirty, settingDefaults |-> settingDefaults,
             mu |-> mu, file |-> file, log |-> <<>>]

Event(ev, i) == [ev |-> ev, i |-> i]
Logged(p, ev, i) == [p EXCEPT !.log = Append(@, Event(ev, i))]

\* What a method leaves behind: the provider, how the call ended ("ok", "err",
\* "blocked", "fatal"), the error and the value returned.
Ret(p, st, err, out) == [p |-> p, st |-> st, err |-> err, out |-> out]

\* getConfigValueKeys
getConfigValueKeys(fs) == [i \in 1..Len(fs) |-> fs[i].Key]

\* A lookup that matches every definition by its exact key.
getFieldDefinition_ExactOnly(key) ==
    IF \E i \in 1..Len(fields) : fields[i].Key = key
    THEN CHOOSE i \in 1..Len(fields) :
             fields[i].Key = key /\ \A j \in 1..(i - 1) : fields[j].Key # key
    ELSE 0

\* getFieldDefinition: the index of the first definition key matches, 0 for nil
getFieldDefinition(key) ==
    LET hit(v) == \/ ~v.CaseSensitive /\ EqualFold(key, v.Key)
                  \/ v.CaseSensitive /\ key = v.Key
    IN IF \E i \in 1..Len(fields) : hit(fields[i])
       THEN CHOOSE i \in 1..Len(fields) :
                hit(fields[i]) /\ \A j \in 1..(i - 1) : ~hit(fields[j])
       ELSE 0

\* A collision check that compares the keys exactly instead of case-folded.
RECURSIVE AddDefinitions_ExactKey(_, _)
AddDefinitions_ExactKey(fs, definitions) ==
    IF definitions = <<>> THEN [err |-> "", key |-> <<>>, fields |-> fs]
    ELSE IF ~Head(definitions).CaseSensitive
            /\ \E i \in 1..Len(fs) : fs[i].Key = Head(definitions).Key
         THEN [err |-> "duplicate key", key |-> Head(definitions).Key, fields |-> fs]
         ELSE AddDefinitions_ExactKey(Append(fs, Head(definitions)), Tail(definitions))

\* A collision check that looks at the case-insensitive definitions only.
RECURSIVE AddDefinitions_OnlyCI(_, _)
AddDefinitions_OnlyCI(fs, definitions) ==
    IF definitions = <<>> THEN [err |-> "", key |-> <<>>, fields |-> fs]
    ELSE IF ~Head(definitions).CaseSensitive
            /\ \E i \in 1..Len(fs) :
                  ~fs[i].CaseSensitive /\ EqualFold(fs[i].Key, Head(definitions).Key)
         THEN [err |-> "duplicate key", key |-> Head(definitions).Key, fields |-> fs]
         ELSE AddDefinitions_OnlyCI(Append(fs, Head(definitions)), Tail(definitions))

\* the loop of WithFieldDefinitions: the definitions appended until one collides
RECURSIVE AddDefinitions(_, _)
AddDefinitions(fs, definitions) ==
    IF definitions = <<>> THEN [err |-> "", key |-> <<>>, fields |-> fs]
    ELSE LET d == Head(definitions)
             keys == getConfigValueKeys(fs)
         IN IF ~d.CaseSensitive /\ \E i \in 1..Len(keys) : EqualFold(keys[i], d.Key)
            THEN [err |-> "duplicate key", key |-> d.Key, fields |-> fs]
            ELSE AddDefinitions(Append(fs, d), Tail(definitions))

\* string(p.cfg)
Text(buf) == IF buf.t = "nilbuf" THEN EmptyBuf ELSE buf

\* the path of a key for SetWithScope and GetWithScope
ResolvePath(callScope, key) ==
    LET p1 == IF callScope # <<>> THEN JoinPath(callScope, key) ELSE key
    IN IF scope # <<>> THEN JoinPath(scope, key) ELSE p1

\* A setConfigFromFile that empties the buffer when the file cannot be read.
setConfigFromFile_ClearOnError(p) ==
    IF fault \/ p.file.t = "nofile" THEN [p EXCEPT !.cfg = EmptyBuf]
    ELSE [p EXCEPT !.cfg = p.file]

\* setConfigFromFile
setConfigFromFile(p) ==
    IF fault \/ p.file.t = "nofile" THEN Logged(p, "load", 0)
    ELSE [Logged(p, "load", 0) EXCEPT !.cfg = p.file]

\* A writeConfig that replaces the buffer and never writes the file.
writeConfig_BufferOnly(p, json) ==
    Ret([p EXCEPT !.dirty = TRUE, !.cfg = json], "ok", "", GoNil)

\* writeConfig
writeConfig(p, json) ==
    LET p1 == [Logged(p, "write", 0) EXCEPT !.dirty = TRUE, !.cfg = json] IN
    IF fileName # <<>>
    THEN IF fault THEN Ret(p1, "err", "write failed", GoNil)
         ELSE Ret([p1 EXCEPT !.file = json], "ok", "", GoNil)
    ELSE Ret(p1, "ok", "", GoNil)

\* The only element of a one-element set: { F(x) : x \in {e} } evaluates e once.
Only(S) == CHOOSE x \in S : TRUE

RECURSIVE getConfig(_), SetWithScope(_, _, _, _), setDefaultConfigFrom(_, _)

\* setDefaultConfig, from the i-th definition on: r is what p.Set returned
setDefaultConfigNext(r, i) ==
    IF r.st = "ok" THEN setDefaultConfigFrom(r.p, i + 1)
    ELSE IF r.st = "err" THEN Ret(r.p, "fatal", r.err, GoNil)
    ELSE r

setDefaultConfigFrom(p, i) ==
    IF i > Len(fields) THEN Ret(p, "ok", "", GoNil)
    ELSE IF fields[i].Default.t = "nil" THEN setDefaultConfigFrom(p, i + 1)
    ELSE Only({ setDefaultConfigNext(r, i) :
                r \in {SetWithScope(Logged(p, "set", i), Empty, fields[i].Key,
                                     fields[i].Default)} })

\* Default materialisation that skips the first definition.
setDefaultConfig_FromSecond(p) == setDefaultConfigFrom(p, 2)

setDefaultConfig(p) == setDefaultConfigFrom(p, 1)

\* getConfig, after the defaults were set (or were not needed)
getConfigDone(r) ==
    IF r.st = "ok"
    THEN Ret([r.p EXCEPT !.settingDefaults = FALSE, !.dirty = FALSE], "ok", "",
             Text(r.p.cfg))
    ELSE r

\* getConfig, after the file was read (or was not configured)
getConfigLoaded(p1) ==
    Only({ getConfigDone(r) :
           r \in { IF p1.cfg.t \in {"nilbuf", "emptybuf"}
                   THEN setDefaultConfig([Logged(p1, "defaults", 0)
                                              EXCEPT !.settingDefaults = TRUE])
                   ELSE Ret(p1, "ok", "", GoNil) } })

\* A getConfig without the settingDefaults guard.
getConfig_NoGuard(p) ==
    IF p.cfg.t = "nilbuf" \/ p.dirty
    THEN Only({ getConfigLoaded(p1) :
                p1 \in { IF fileName # <<>> THEN setConfigFromFile(p) ELSE p } })
    ELSE Ret(p, "ok", "", Text(p.cfg))

\* getConfig: out is string(p.cfg)
getConfig(p) ==
    IF ~p.settingDefaults /\ (p.cfg.t = "nilbuf" \/ p.dirty)
    THEN Only({ getConfigLoaded(p1) :
                p1 \in { IF fileName # <<>> THEN setConfigFromFile(p) ELSE p } })
    ELSE Ret(p, "ok", "", Text(p.cfg))

\* the end of SetWithScope and of RemoveScope: sj is what sjson returned, g
\* what getConfig returned; the deferred Unlock runs on every return
WriteAndUnlock(g, sj) ==
    IF sj.err # "" THEN Ret([g.p EXCEPT !.mu = FALSE], "err", sj.err, GoNil)
    ELSE Only({ Ret([w.p EXCEPT !.mu = FALSE], w.st, w.err, GoNil) :
                w \in {writeConfig(g.p, sj.json)} })

\* SetWithScope under the lock: g is what getConfig returned
SetLocked(g, path, value) ==
    IF g.st # "ok" THEN g
    ELSE Only({ WriteAndUnlock(g, sj) :
                sj \in {sjsonSet(g.out, escapeWildcards(path), value)} })

\* A SetWithScope that validates only after it has written the value.
SetResolved_ValidateLate(p, callScope, key, value, i) ==
    IF i = 0 /\ explicitValues THEN Ret(p, "err", "key is not valid", GoNil)
    ELSE IF p.mu THEN Ret(p, "blocked", "", GoNil)
    ELSE Only({ IF r.st = "ok" /\ i # 0 /\ fields[i].ValidationFunc.kind # "none"
                              /\ Validate(fields[i].ValidationFunc, value) # ""
                THEN Ret(r.p, "err", "validation", GoNil)
                ELSE r :
                r \in { Only({ SetLocked(g, ResolvePath(callScope,
                                             IF i # 0 /\ ~fields[i].CaseSensitive
                                             THEN fields[i].Key ELSE key), value) :
                               g \in {getConfig([p EXCEPT !.mu = TRUE])} }) } })

\* SetWithScope once the definition is looked up: i is its index, 0 for nil
SetResolved(p, callScope, key, value, i) ==
    IF i # 0 /\ fields[i].ValidationFunc.kind # "none"
             /\ Validate(fields[i].ValidationFunc, value) # ""
    THEN Ret(p, "err", "validation", GoNil)
    ELSE IF i = 0 /\ explicitValues THEN Ret(p, "err", "key is not valid", GoNil)
    ELSE IF p.mu THEN Ret(p, "blocked", "", GoNil)
    ELSE Only({ SetLocked(g, ResolvePath(callScope,
                                 IF i # 0 /\ ~fields[i].CaseSensitive
                                 THEN fields[i].Key ELSE key), value) :
                g \in {getConfig([p EXCEPT !.mu = TRUE])} })

\* SetWithScope; Set(key, value) is SetWithScope("", key, value)
SetWithScope(p, callScope, key, value) ==
    Only({ SetResolved(p, callScope, key, value, i) : i \in {getFieldDefinition(key)} })

\* getFromConfig, g being what getConfig returned
getFromConfigIn(g, path) ==
    IF g.st # "ok" THEN g
    ELSE Only({ IF ~res.exists THEN Ret(g.p, "err", "no value found", GoString(Empty))
                ELSE Ret(g.p, "ok", "", ResultValue(res.val)) :
                res \in {gjsonGet(g.out, path)} })

\* getFromConfig
getFromConfig(p, path) ==
    Only({ getFromConfigIn(g, path) : g \in {getConfig(p)} })

\* A GetWithScope that prefers the stored value to the environment.
GetResolved_StoredFirst(p, callScope, key, i) ==
    Only({ IF r.st = "err" /\ i # 0 /\ LookupEnv(fields[i].EnvVar).ok
           THEN Ret(r.p, "ok", "", GoString(LookupEnv(fields[i].EnvVar).val))
           ELSE r :
           r \in { getFromConfig(p, ResolvePath(callScope,
                                        IF i # 0 /\ ~fields[i].CaseSensitive
                                        THEN fields[i].Key ELSE key)) } })

\* GetWithScope once the definition is looked up: i is its index, 0 for nil
GetResolved(p, callScope, key, i) ==
    IF i # 0 /\ LookupEnv(fields[i].EnvVar).ok
    THEN Ret(p, "ok", "", GoString(LookupEnv(fields[i].EnvVar).val))
    ELSE getFromConfig(p, ResolvePath(callScope,
                              IF i # 0 /\ ~fields[i].CaseSensitive
                              THEN fields[i].Key ELSE key))

\* GetWithScope; Get(key) is GetWithScope("", key)
GetWithScope(p, callScope, key) ==
    Only({ GetResolved(p, callScope, key, i) : i \in {getFieldDefinition(key)} })

\* A RemoveScope that writes the document back without deleting anything.
RemoveLocked_NoDelete(g, path) ==
    IF g.st # "ok" THEN g
    ELSE WriteAndUnlock(g, SjsonOk(g.out))

\* RemoveScope under the lock: g is what getConfig returned
RemoveLocked(g, path) ==
    IF g.st # "ok" THEN g
    ELSE Only({ WriteAndUnlock(g, sj) : sj \in {sjsonDelete(g.out, path)} })

\* RemoveScope
RemoveScope(p, name) ==
    IF p.mu THEN Ret(p, "blocked", "", GoNil)
    ELSE Only({ RemoveLocked(g, IF scope # <<>> THEN JoinPath(scope, name) ELSE name) :
                g \in {getConfig([p EXCEPT !.mu = TRUE])} })

\* GetScopes, g being what getConfig returned: out.m holds one member per
\* top-level key, in document order
GetScopesIn(g) ==
    IF g.st # "ok" THEN g
    ELSE Ret(g.p, "ok", "", GoMap(IF g.out.t = "jobj" THEN g.out.m ELSE <<>>))

\* GetScopes
GetScopes(p) == Only({ GetScopesIn(g) : g \in {getConfig(p)} })

(***************************************************************************)
(* Actions.                                                                *)
(***************************************************************************)
Init ==
    /\ status = "building"
    /\ failedKey = <<>>
    /\ \E su \in Setups : opts = su.opts /\ env = su.env /\ file = su.file
    /\ cfg = NilBuf
    /\ fields = <<>>
    /\ fileName = <<>>
    /\ scope = <<>>
    /\ mu = FALSE
    /\ dirty = FALSE
    /\ explicitValues = FALSE
    /\ settingDefaults = FALSE
    /\ fault = FALSE
    /\ hist = <<>>
    /\ stack = [t \in Threads |-> <<>>]
    /\ holder = 0

runtime == <<cfg, mu, dirty, settingDefaults, file, fault, hist>>

\* WithExplicitValues, applied by NewConfigProvider
WithExplicitValues ==
    /\ status = "building" /\ opts # <<>> /\ Head(opts).kind = "explicit"
    /\ explicitValues' = TRUE
    /\ opts' = Tail(opts)
    /\ UNCHANGED <<status, failedKey, fields, fileName, scope, env, runtime, threads>>

\* WithFieldDefinitions, applied by NewConfigProvider
WithFieldDefinitions ==
    /\ status = "building" /\ opts # <<>> /\ Head(opts).kind = "fields"
    /\ \E r \in {AddDefinitions(fields, Head(opts).defs)} :
       /\ fields' = r.fields
       /\ status' = IF r.err # "" THEN "failed" ELSE status
       /\ failedKey' = r.key
    /\ opts' = Tail(opts)
    /\ UNCHANGED <<explicitValues, fileName, scope, env, runtime, threads>>

\* WithFilePersistence, applied by NewConfigProvider
WithFilePersistence ==
    /\ status = "building" /\ opts # <<>> /\ Head(opts).kind = "file"
    /\ fileName' = Head(opts).str
    /\ opts' = Tail(opts)
    /\ UNCHANGED <<status, failedKey, fields, explicitValues, scope, env, runtime, threads>>

\* WithScope, applied by NewConfigProvider
WithScope ==
    /\ status = "building" /\ opts # <<>> /\ Head(opts).kind = "scope"
    /\ scope' = Head(opts).str
    /\ opts' = Tail(opts)
    /\ UNCHANGED <<status, failedKey, fields, explicitValues, fileName, env, runtime, threads>>

\* NewConfigProvider returns the provider
NewConfigProvider ==
    /\ status = "building" /\ opts = <<>>
    /\ status' = "ready"
    /\ UNCHANGED <<config, runtime, threads>>

Call(op, callScope, key, value) ==
    [op |-> op, scope |-> callScope, key |-> key, value |-> value]

\* The record of a call: how it ended, what it returned, and whether it left the
\* document and the backing file as they were.
Done(call, r) ==
    [call |-> call, st |-> r.st, err |-> r.err, out |-> r.out,
     same |-> (Text(r.p.cfg) = Text(cfg) /\ r.p.file = file), log |-> r.p.log]

\* the provider and the process after a call
Finish(call, r) ==
    /\ cfg' = r.p.cfg
    /\ dirty' = r.p.dirty
    /\ settingDefaults' = r.p.settingDefaults
    /\ mu' = r.p.mu
    /\ file' = r.p.file
    /\ status' = CASE r.st = "blocked" -> "blocked"
                   [] r.st = "fatal"   -> "exited"
                   [] OTHER            -> status
    /\ hist' = Append(hist, Done(call, r))
    /\ UNCHANGED <<config, fault, threads>>

CanCall == status = "ready" /\ Len(hist) < MaxOps

CallGetWithScope ==
    /\ CanCall
    /\ \E s \in CallScopes, k \in Keys :
       \E r \in {GetWithScope(Provider, s, k)} : Finish(Call("get", s, k, GoNil), r)

CallSetWithScope ==
    /\ CanCall
    /\ \E s \in CallScopes, k \in Keys, v \in Values :
       \E r \in {SetWithScope(Provider, s, k, v)} : Finish(Call("set", s, k, v), r)

CallRemoveScope ==
    /\ CanCall
    /\ \E s \in ScopeNames :
       \E r \in {RemoveScope(Provider, s)} :
          Finish(Call("removeScope", s, Empty, GoNil), r)

CallGetScopes ==
    /\ CanCall
    /\ \E r \in {GetScopes(Provider)} :
          Finish(Call("listScopes", Empty, Empty, GoNil), r)

\* The file system starts or stops failing the reads and writes of the file.
DiskFault ==
    /\ status = "ready" /\ fileName # <<>>
    /\ fault' = ~fault
    /\ UNCHANGED <<status, config, cfg, mu, dirty, settingDefaults, file, hist, threads>>

Next ==
    \/ WithExplicitValues
    \/ WithFieldDefinitions
    \/ WithFilePersistence
    \/ WithScope
    \/ NewConfigProvider
    \/ CallGetWithScope
    \/ CallSetWithScope
    \/ CallRemoveScope
    \/ CallGetScopes
    \/ DiskFault

Spec == Init /\ [][Next]_vars

(***************************************************************************)
(* Goroutines.  Each goroutine is in a stack of method frames and moves by *)
(* one access to the provider or the file at a time.  A frame holds the    *)
(* method (fn), the place in it (at), the call, the local string or file   *)
(* data, the index of the loop of setDefaultConfig, the error to return    *)
(* and the number of calls that had returned when the call began.          *)
(***************************************************************************)
\* NewConfigProvider as one step: the options applied in order
RECURSIVE Built(_, _)
Built(options, p) ==
    IF options = <<>> THEN p
    ELSE LET o == Head(options) IN
         Built(Tail(options),
               CASE o.kind = "explicit" -> [p EXCEPT !.explicitValues = TRUE]
                 [] o.kind = "fields"   ->
                        [p EXCEPT !.fields = AddDefinitions(p.fields, o.defs).fields]
                 [] o.kind = "file"     -> [p EXCEPT !.fileName = o.str]
                 [] o.kind = "scope"    -> [p EXCEPT !.scope = o.str])

\* The processes whose goroutines share the provider.
SharedSetups ==
    { Setup(<<OptFilePersistence>>, {}, EarlierFile),
      Setup(<<OptFieldDefinitions(<<DRegion, DApiKey>>)>>, {}, NoFile) }

\* What the arguments of their calls are drawn from.
SharedKeys   == {Str_a, Str_b}
SharedValues == {GoString(Str_EU)}
SharedScopes == {Str_s}

Frame(fn, at, call, began) ==
    [fn |-> fn, at |-> at, call |-> call, data |-> EmptyBuf, i |-> 0, err |-> "",
     began |-> began]

Top(t) == stack[t][Len(stack[t])]
In(t, fn, at) == stack[t] # <<>> /\ Top(t).fn \in fn /\ Top(t).at = at

\* the stack of t with its top frame replaced, with a frame pushed, popped
SetTop(t, f) == [stack[t] EXCEPT ![Len(stack[t])] = f]
Push(t, f) == Append(stack[t], f)
Pop(t) == SubSeq(stack[t], 1, Len(stack[t]) - 1)
Goes(t, frames) == stack' = [stack EXCEPT ![t] = frames]

\* the frame of a getConfig that has just been called
ConfigFrame == Frame("getConfig", "test", Call("", Empty, Empty, GoNil), 0)

\* the calls begun so far
Begun == Len(hist) + Cardinality({t \in Threads : stack[t] # <<>>})
CanBegin(t) == status = "ready" /\ stack[t] = <<>> /\ Begun < MaxCalls

\* what a call that has returned leaves in hist
Returns(t, call, began, st, err, out) ==
    hist' = Append(hist, [call |-> call, st |-> st, err |-> err, out |-> out,
                          began |-> began, thread |-> t])

InitShared ==
    /\ status = "ready"
    /\ opts = <<>>
    /\ failedKey = <<>>
    /\ \E su \in SharedSetups :
          /\ env = su.env /\ file = su.file
          /\ \E p \in { Built(su.opts, [explicitValues |-> FALSE, fields |-> <<>>,
                                         fileName |-> <<>>, scope |-> <<>>]) } :
                /\ explicitValues = p.explicitValues /\ fields = p.fields
                /\ fileName = p.fileName /\ scope = p.scope
    /\ cfg = NilBuf
    /\ mu = FALSE
    /\ dirty = FALSE
    /\ settingDefaults = FALSE
    /\ fault = FALSE
    /\ hist = <<>>
    /\ stack = [t \in Threads |-> <<>>]
    /\ holder = 0

shared == <<cfg, dirty, settingDefaults, mu, holder, file>>

\* GetWithScope up to its call of getFromConfig
BeginGet(t) ==
    /\ CanBegin(t)
    /\ \E k \in SharedKeys :
       LET i == getFieldDefinition(k)
           call == Call("get", Empty, k, GoNil) IN
       IF i # 0 /\ LookupEnv(fields[i].EnvVar).ok
       THEN /\ Returns(t, call, Len(hist), "ok", "",
                       GoString(LookupEnv(fields[i].EnvVar).val))
            /\ UNCHANGED stack
       ELSE /\ Goes(t, <<Frame("GetWithScope", "read", call, Len(hist)), ConfigFrame>>)
            /\ UNCHANGED hist
    /\ UNCHANGED <<status, config, shared, fault>>

\* GetScopes up to its call of getConfig
BeginGetScopes(t) ==
    /\ CanBegin(t)
    /\ Goes(t, <<Frame("GetScopes", "read", Call("listScopes", Empty, Empty, GoNil),
                       Len(hist)), ConfigFrame>>)
    /\ UNCHANGED <<status, config, shared, fault, hist>>

\* SetWithScope up to p.mu.Lock()
BeginSet(t) ==
    /\ CanBegin(t)
    /\ \E k \in SharedKeys, v \in SharedValues :
       LET i == getFieldDefinition(k)
           call == Call("set", Empty, k, v) IN
       IF i # 0 /\ fields[i].ValidationFunc.kind # "none"
                /\ Validate(fields[i].ValidationFunc, v) # ""
       THEN Returns(t, call, Len(hist), "err", "validation", GoNil) /\ UNCHANGED stack
       ELSE IF i = 0 /\ explicitValues
       THEN Returns(t, call, Len(hist), "err", "key is not valid", GoNil)
            /\ UNCHANGED stack
       ELSE Goes(t, <<Frame("SetWithScope", "lock", call, Len(hist))>>) /\ UNCHANGED hist
    /\ UNCHANGED <<status, config, shared, fault>>

\* RemoveScope up to p.mu.Lock()
BeginRemoveScope(t) ==
    /\ CanBegin(t)
    /\ \E s \in SharedScopes :
          Goes(t, <<Frame("RemoveScope", "lock", Call("removeScope", s, Empty, GoNil),
                          Len(hist))>>)
    /\ UNCHANGED <<status, config, shared, fault, hist>>

Running(t, fn, at) == status = "ready" /\ In(t, fn, at)
Writers == {"SetWithScope", "RemoveScope"}
Readers == {"GetWithScope", "GetScopes"}

\* the path SetWithScope and GetWithScope build for the call
PathOf(call) ==
    LET i == getFieldDefinition(call.key)
    IN ResolvePath(call.scope,
                   IF i # 0 /\ ~fields[i].CaseSensitive THEN fields[i].Key ELSE call.key)

\* getConfig: the test of line 316
TestConfig(t) ==
    /\ Running(t, {"getConfig"}, "test")
    /\ Goes(t, SetTop(t, [Top(t) EXCEPT !.at =
                 IF ~settingDefaults /\ (cfg.t = "nilbuf" \/ dirty)
                 THEN IF fileName # <<>> THEN "load" ELSE "empty"
                 ELSE "return"]))
    /\ UNCHANGED <<status, config, shared, fault, hist>>

\* setConfigFromFile: os.ReadFile
ReadFile(t) ==
    /\ Running(t, {"getConfig"}, "load")
    /\ Goes(t, SetTop(t, IF fault \/ file.t = "nofile"
                         THEN [Top(t) EXCEPT !.at = "empty"]
                         ELSE [Top(t) EXCEPT !.at = "assign", !.data = file]))
    /\ UNCHANGED <<status, config, shared, fault, hist>>

\* setConfigFromFile: p.cfg = data
AssignBuffer(t) ==
    /\ Running(t, {"getConfig"}, "assign")
    /\ cfg' = Top(t).data
    /\ Goes(t, SetTop(t, [Top(t) EXCEPT !.at = "empty"]))
    /\ UNCHANGED <<status, config, dirty, settingDefaults, mu, holder, file, fault, hist>>

\* getConfig: the test of line 321 and p.settingDefaults = true
TestEmpty(t) ==
    /\ Running(t, {"getConfig"}, "empty")
    /\ IF cfg.t \in {"nilbuf", "emptybuf"}
       THEN /\ settingDefaults' = TRUE
            /\ Goes(t, SetTop(t, [Top(t) EXCEPT !.at = "defaults", !.i = 1]))
       ELSE /\ Goes(t, SetTop(t, [Top(t) EXCEPT !.at = "clear"]))
            /\ UNCHANGED settingDefaults
    /\ UNCHANGED <<status, config, cfg, dirty, mu, holder, file, fault, hist>>

\* setDefaultConfig: one turn of its loop, up to p.mu.Lock() of the Set it
\* calls; after the loop, p.settingDefaults = false
NextDefault(t) ==
    /\ Running(t, {"getConfig"}, "defaults")
    /\ LET i == Top(t).i IN
       IF i > Len(fields)
       THEN /\ settingDefaults' = FALSE
            /\ Goes(t, SetTop(t, [Top(t) EXCEPT !.at = "clear"]))
            /\ UNCHANGED status
       ELSE IF fields[i].Default.t = "nil"
       THEN /\ Goes(t, SetTop(t, [Top(t) EXCEPT !.i = i + 1]))
            /\ UNCHANGED <<status, settingDefaults>>
       ELSE LET d == getFieldDefinition(fields[i].Key) IN
            IF fields[d].ValidationFunc.kind # "none"
               /\ Validate(fields[d].ValidationFunc, fields[i].Default) # ""
            THEN status' = "exited" /\ UNCHANGED <<stack, settingDefaults>>
            ELSE /\ Goes(t, Push(t, Frame("SetWithScope", "lock",
                                          Call("set", Empty, fields[i].Key,
                                               fields[i].Default), 0)))
                 /\ UNCHANGED <<status, settingDefaults>>
    /\ UNCHANGED <<config, cfg, dirty, mu, holder, file, fault, hist>>

\* getConfig: p.dirty = false
ClearDirty(t) ==
    /\ Running(t, {"getConfig"}, "clear")
    /\ dirty' = FALSE
    /\ Goes(t, SetTop(t, [Top(t) EXCEPT !.at = "return"]))
    /\ UNCHANGED <<status, config, cfg, settingDefaults, mu, holder, file, fault, hist>>

\* getConfig: return string(p.cfg), to the frame that called
ReturnConfig(t) ==
    /\ Running(t, {"getConfig"}, "return")
    /\ Goes(t, [Pop(t) EXCEPT ![Len(stack[t]) - 1] = [@ EXCEPT !.data = Text(cfg)]])
    /\ UNCHANGED <<status, config, shared, fault, hist>>

\* GetWithScope and GetScopes once getConfig has returned
ReadReturn(t) ==
    /\ Running(t, Readers, "read")
    /\ LET f == Top(t)
           res == gjsonGet(f.data, PathOf(f.call)) IN
       IF f.fn = "GetScopes"
       THEN Returns(t, f.call, f.began, "ok", "",
                    GoMap(IF f.data.t = "jobj" THEN f.data.m ELSE <<>>))
       ELSE IF res.exists
       THEN Returns(t, f.call, f.began, "ok", "", ResultValue(res.val))
       ELSE Returns(t, f.call, f.began, "err", "no value found", GoString(Empty))
    /\ Goes(t, <<>>)
    /\ UNCHANGED <<status, config, shared, fault>>

\* A lock that is granted while another goroutine holds it.
CanLock_Always == TRUE

\* sync.Mutex: Lock returns when no goroutine holds the mutex
CanLock == ~mu

\* SetWithScope, RemoveScope: p.mu.Lock() and the call of getConfig
Lock(t) ==
    /\ Running(t, Writers, "lock")
    /\ CanLock
    /\ mu' = TRUE
    /\ holder' = t
    /\ Goes(t, Append(SetTop(t, [Top(t) EXCEPT !.at = "modify"]), ConfigFrame))
    /\ UNCHANGED <<status, config, cfg, dirty, settingDefaults, file, fault, hist>>

\* sjson.Set, sjson.Delete, and the head of writeConfig: p.dirty = true,
\* p.cfg = []byte(json)
WriteBuffer(t) ==
    /\ Running(t, Writers, "modify")
    /\ LET f == Top(t)
           sj == IF f.fn = "SetWithScope"
                 THEN sjsonSet(f.data, escapeWildcards(PathOf(f.call)), f.call.value)
                 ELSE sjsonDelete(f.data, IF scope # <<>>
                                          THEN JoinPath(scope, f.call.scope)
                                          ELSE f.call.scope) IN
       IF sj.err # ""
       THEN /\ Goes(t, SetTop(t, [f EXCEPT !.at = "unlock", !.err = sj.err]))
            /\ UNCHANGED <<cfg, dirty>>
       ELSE /\ dirty' = TRUE
            /\ cfg' = sj.json
            /\ Goes(t, SetTop(t, [f EXCEPT !.at = IF fileName # <<>> THEN "persist"
                                                  ELSE "unlock"]))
    /\ UNCHANGED <<status, config, settingDefaults, mu, holder, file, fault, hist>>

\* writeConfig: os.WriteFile(p.fileName, p.cfg, 0644)
WriteFile(t) ==
    /\ Running(t, Writers, "persist")
    /\ IF fault
       THEN /\ Goes(t, SetTop(t, [Top(t) EXCEPT !.at = "unlock", !.err = "write failed"]))
            /\ UNCHANGED file
       ELSE /\ file' = Text(cfg)
            /\ Goes(t, SetTop(t, [Top(t) EXCEPT !.at = "unlock"]))
    /\ UNCHANGED <<status, config, cfg, dirty, settingDefaults, mu, holder, fault, hist>>

\* the deferred p.mu.Unlock() and the return, to the caller or to
\* setDefaultConfig, which ends the process on an error
Unlock(t) ==
    /\ Running(t, Writers, "unlock")
    /\ mu' = FALSE
    /\ holder' = 0
    /\ LET f == Top(t) IN
       IF Len(stack[t]) = 1
       THEN /\ Returns(t, f.call, f.began, IF f.err = "" THEN "ok" ELSE "err", f.err,
                       GoNil)
            /\ Goes(t, <<>>)
            /\ UNCHANGED status
       ELSE /\ Goes(t, [Pop(t) EXCEPT ![Len(stack[t]) - 1] = [@ EXCEPT !.i = @ + 1]])
            /\ status' = IF f.err = "" THEN status ELSE "exited"
            /\ UNCHANGED hist
    /\ UNCHANGED <<config, cfg, dirty, settingDefaults, file, fault>>

NextShared ==
    \E t \in Threads :
        \/ BeginGet(t)
        \/ BeginGetScopes(t)
        \/ BeginSet(t)
        \/ BeginRemoveScope(t)
        \/ TestConfig(t)
        \/ ReadFile(t)
        \/ AssignBuffer(t)
        \/ TestEmpty(t)
        \/ NextDefault(t)
        \/ ClearDirty(t)
        \/ ReturnConfig(t)
        \/ ReadReturn(t)
        \/ Lock(t)
        \/ WriteBuffer(t)
        \/ WriteFile(t)
        \/ Unlock(t)

Shared == InitShared /\ [][NextShared]_vars

(***************************************************************************)
(* Properties.                                                             *)
(***************************************************************************)
Calls == 1..Len(hist)

IsGet(n)    == hist[n].call.op = "get"
IsSet(n)    == hist[n].call.op = "set"
IsRemove(n) == hist[n].call.op = "removeScope"
IsList(n)   == hist[n].call.op = "listScopes"
Ok(n)       == hist[n].st = "ok"

SameTarget(m, n) ==
    hist[m].call.scope = hist[n].call.scope /\ hist[m].call.key = hist[n].call.key

\* a value as it comes back from the document: an int is read as the float64
\* of the same number
RoundTrip(v) == ResultValue(Marshal(v))

\* the definition key resolves to names an environment variable that is set
Override(key) ==
    LET i == getFieldDefinition(key) IN i # 0 /\ fields[i].EnvVar \in env

\* the top-level names listScopes returned
Names(out) == {out.m[i].name : i \in 1..Len(out.m)}

IsPattern(key) == \E i \in 1..Len(key) : key[i] \in {"*", "?"}

\* C1: a get of a key whose definition (the one getFieldDefinition returns for
\* the key) names an environment variable that is set returns the environment
\* value, whatever the scope argument and whatever the calls before it stored.
C1_EnvOverride ==
    \A n \in Calls :
        IsGet(n) /\ Override(hist[n].call.key)
            => Ok(n) /\ hist[n].out = GoString(Str_ev)

\* a get that returned the environment value right after a successful set
\* stored another value for the same key
C1_Witness ==
    \E n \in 2..Len(hist) :
        /\ IsSet(n - 1) /\ Ok(n - 1) /\ IsGet(n) /\ SameTarget(n - 1, n)
        /\ Override(hist[n].call.key)
        /\ RoundTrip(hist[n - 1].call.value) # GoString(Str_ev)
        /\ hist[n].out = GoString(Str_ev)

\* the first call is Get(fields[j].Key) on a provider without backing file and
\* without environment override, and fields[j] has a default
FirstGetOfDefault(j) ==
    /\ Len(hist) >= 1 /\ IsGet(1)
    /\ hist[1].call.scope = Empty /\ hist[1].call.key = fields[j].Key
    /\ fields[j].Default.t # "nil"
    /\ fileName = <<>>
    /\ \A i \in 1..Len(fields) : fields[i].EnvVar \notin env

\* no other definition's key matches key: equal, equal up to letter case, or
\* matched by key read as a pattern
MatchesNoOther(j) ==
    \A i \in 1..Len(fields) :
        i # j => /\ ~EqualFold(fields[i].Key, fields[j].Key)
                 /\ ~(IsPattern(fields[j].Key) /\ Match(fields[i].Key, fields[j].Key))

\* every default passes the validation function of the definition its key
\* resolves to
DefaultsPass ==
    \A i \in 1..Len(fields) :
        fields[i].Default.t # "nil" =>
            LET d == getFieldDefinition(fields[i].Key) IN
            \/ fields[d].ValidationFunc.kind = "none"
            \/ Validate(fields[d].ValidationFunc, fields[i].Default) = ""

\* C2 as stated: whatever else is registered, the first get of a key with a
\* default returns that default.
C2_Original ==
    \A j \in 1..Len(fields) :
        FirstGetOfDefault(j) => Ok(1) /\ hist[1].out = RoundTrip(fields[j].Default)

\* C2 as amended: the first get of a key with a default returns that default
\* when no other definition's key matches the key and every default passes its
\* validation function.
C2_DefaultOfSoleDefinition ==
    \A j \in 1..Len(fields) :
        FirstGetOfDefault(j) /\ MatchesNoOther(j) /\ DefaultsPass
            => Ok(1) /\ hist[1].out = RoundTrip(fields[j].Default)

\* a first get that returned the default of a definition registered with others
C2_Witness ==
    \E j \in 1..Len(fields) :
        /\ Len(fields) >= 2
        /\ FirstGetOfDefault(j) /\ MatchesNoOther(j) /\ DefaultsPass
        /\ Ok(1) /\ hist[1].out = RoundTrip(fields[j].Default)

\* C3: a get right after a successful set of the same key and scope returns
\* the value set, or the environment value when the key has an override.
C3_RoundTrip ==
    \A n \in 2..Len(hist) :
        IsSet(n - 1) /\ Ok(n - 1) /\ IsGet(n) /\ SameTarget(n - 1, n)
            => /\ Ok(n)
               /\ hist[n].out = IF Override(hist[n].call.key)
                                THEN GoString(Str_ev)
                                ELSE RoundTrip(hist[n - 1].call.value)

\* the value fails the validation function of the definition the key resolves to
Rejected(key, value) ==
    LET i == getFieldDefinition(key) IN
    /\ i # 0
    /\ fields[i].ValidationFunc.kind # "none"
    /\ Validate(fields[i].ValidationFunc, value) # ""

\* C4: a set whose value the validation function rejects returns the
\* validation error and leaves document and file as they were, and a get that
\* follows it returns what the same get returned right before it.
C4_RejectedSetChangesNothing ==
    \A n \in Calls :
        IsSet(n) /\ Rejected(hist[n].call.key, hist[n].call.value)
            => /\ hist[n].st = "err" /\ hist[n].err = "validation"
               /\ hist[n].same
               /\ (/\ n > 1 /\ n < Len(hist)
                   /\ IsGet(n - 1) /\ IsGet(n + 1) /\ SameTarget(n - 1, n + 1)
                   /\ hist[n - 1].call.key = hist[n].call.key)
                      => /\ hist[n + 1].st = hist[n - 1].st
                         /\ hist[n + 1].err = hist[n - 1].err
                         /\ hist[n + 1].out = hist[n - 1].out

\* get returned the default, a set of the same key was rejected, and get
\* returned the default again
C4_Witness ==
    /\ Len(hist) = 3
    /\ IsGet(1) /\ Ok(1) /\ hist[1].out = GoString(Str_us)
    /\ IsSet(2) /\ hist[2].err = "validation" /\ hist[2].call.key = hist[1].call.key
    /\ IsGet(3) /\ SameTarget(1, 3) /\ hist[3].out = GoString(Str_us)

\* C5: a set of a key no definition matches fails with the unknown-key error
\* and changes nothing in explicit-values mode; otherwise it succeeds (unless
\* the file cannot be written) and a get that follows returns the value.  The
\* registry is one whose defaults pass their validation functions.
C5_UnregisteredKey ==
    \A n \in Calls :
        IsSet(n) /\ getFieldDefinition(hist[n].call.key) = 0 /\ DefaultsPass
            => IF explicitValues
               THEN hist[n].st = "err" /\ hist[n].err = "key is not valid" /\ hist[n].same
               ELSE \/ hist[n].err = "write failed"
                    \/ /\ Ok(n)
                       /\ (n < Len(hist) /\ IsGet(n + 1) /\ SameTarget(n, n + 1))
                             => Ok(n + 1)
                                /\ hist[n + 1].out = RoundTrip(hist[n].call.value)

NoTwoCaseInsensitive(fs) ==
    \A i, j \in 1..Len(fs) :
        i # j /\ ~fs[i].CaseSensitive /\ ~fs[j].CaseSensitive
            => ~EqualFold(fs[i].Key, fs[j].Key)

\* WithFieldDefinitions is about to be applied
Registering == status = "building" /\ opts # <<>> /\ Head(opts).kind = "fields"

\* a case-insensitive definition among defs folds to the key of a definition
\* before it (in fs or in defs) that satisfies Among
CollidesWith(fs, defs, Among(_)) ==
    \E k \in 1..Len(defs) :
        /\ ~defs[k].CaseSensitive
        /\ \/ \E i \in 1..Len(fs) : Among(fs[i]) /\ EqualFold(fs[i].Key, defs[k].Key)
           \/ \E i \in 1..(k - 1) :
                 Among(defs[i]) /\ EqualFold(defs[i].Key, defs[k].Key)

IsCaseInsensitive(d) == ~d.CaseSensitive
AnyDefinition(d) == TRUE

\* C6: registering a case-insensitive definition whose key folds to that of a
\* registered case-insensitive definition fails, and no provider ever holds
\* two case-insensitive definitions with the same folded key.
C6_NoCaseInsensitiveDuplicates ==
    /\ [](NoTwoCaseInsensitive(fields))
    /\ [][Registering /\ CollidesWith(fields, Head(opts).defs, IsCaseInsensitive)
             => status' = "failed" /\ failedKey' # <<>>]_vars

\* NewConfigProvider failed on a case-insensitive definition whose key differs
\* in case only from the case-insensitive definition registered before
C6_Witness ==
    /\ status = "failed"
    /\ Len(fields) = 1 /\ ~fields[1].CaseSensitive
    /\ failedKey # fields[1].Key /\ EqualFold(failedKey, fields[1].Key)

\* C7 as stated: a case-sensitive and a case-insensitive definition with the
\* same folded key register in either order, so registration fails only on a
\* collision of two case-insensitive definitions.
C7_Original ==
    status = "failed" =>
        \E i \in 1..Len(fields) :
            ~fields[i].CaseSensitive /\ EqualFold(fields[i].Key, failedKey)

\* C7 as amended: registration fails exactly when a case-insensitive
\* definition folds to the key of any definition registered before it; so the
\* pair registers when the case-insensitive one comes first and fails when
\* the case-sensitive one comes first.
C7_FailsOnAnyEarlierKey ==
    [][Registering
          => (status' = "failed"
                 <=> CollidesWith(fields, Head(opts).defs, AnyDefinition))]_vars

\* a provider built with a case-insensitive definition followed by a
\* case-sensitive one of the same folded key
C7_Witness ==
    /\ status = "ready"
    /\ Len(fields) = 2
    /\ ~fields[1].CaseSensitive /\ fields[2].CaseSensitive
    /\ EqualFold(fields[1].Key, fields[2].Key)

\* listScopes right after a successful removeScope(S) does not list S
RemovedIsNotListed(n) ==
    IsRemove(n - 1) /\ Ok(n - 1) /\ IsList(n) /\ Ok(n)
        => hist[n - 1].call.scope \notin Names(hist[n].out)

\* C8 as stated: with or without a fixed provider scope.
C8_Original == \A n \in 2..Len(hist) : RemovedIsNotListed(n)

\* C8 as amended: when no fixed provider scope is configured.
C8_RemovedScopeNotListed ==
    \A n \in 2..Len(hist) : scope = <<>> => RemovedIsNotListed(n)

\* a scope was created by a set, removed, and then not listed
C8_Witness ==
    /\ scope = <<>> /\ Len(hist) = 3
    /\ IsSet(1) /\ Ok(1) /\ hist[1].call.scope # Empty
    /\ IsRemove(2) /\ Ok(2) /\ hist[2].call.scope = hist[1].call.scope
    /\ ~hist[2].same
    /\ IsList(3) /\ Ok(3) /\ hist[2].call.scope \notin Names(hist[3].out)

\* C9: a removeScope(S) right after a removeScope(S) returns no error (unless
\* the file cannot be written) and leaves the document as it was.
C9_RemoveTwice ==
    \A n \in 2..Len(hist) :
        (/\ IsRemove(n - 1) /\ IsRemove(n)
         /\ hist[n - 1].call.scope = hist[n].call.scope
         /\ hist[n].err # "write failed")
            => Ok(n) /\ hist[n].same

\* C10: with a fixed provider scope a get returns what the set before it
\* stored for the same key, whatever the two scope arguments; without one, a
\* get with the non-empty scope argument of the set does.  (A key with an
\* environment override is left aside.)
C10_FixedScopeWins ==
    \A n \in 2..Len(hist) :
        (/\ IsSet(n - 1) /\ Ok(n - 1) /\ IsGet(n)
         /\ hist[n - 1].call.key = hist[n].call.key
         /\ ~Override(hist[n].call.key)
         /\ \/ scope # <<>>
            \/ /\ hist[n - 1].call.scope # Empty
               /\ hist[n - 1].call.scope = hist[n].call.scope)
            => Ok(n) /\ hist[n].out = RoundTrip(hist[n - 1].call.value)


\* the call the step has just recorded
Last == hist[Len(hist)]
Returned == Len(hist') = Len(hist) + 1
LastReturned == hist'[Len(hist')]

\* C11: with a backing file, when a set or a removeScope returns success the
\* file holds the document of the buffer; so does it when a read that wrote
\* the defaults returns.
C11_FileIsBuffer ==
    [][(/\ Returned /\ fileName # <<>> /\ LastReturned.st = "ok"
        /\ \/ LastReturned.call.op \in {"set", "removeScope"}
           \/ ~LastReturned.same)
          => file' = Text(cfg')]_vars

\* a get wrote the defaults to the file, and a set then replaced buffer and
\* file by a larger document
C11_Witness ==
    /\ fileName # <<>> /\ Len(hist) = 2
    /\ IsGet(1) /\ Ok(1) /\ ~hist[1].same
    /\ IsSet(2) /\ Ok(2) /\ ~hist[2].same
    /\ file = cfg /\ cfg.t = "jobj" /\ Len(cfg.m) >= 2


\* C13: every set and every removeScope returns; none waits for ever on the
\* provider's lock, whichever call is the first on the provider.
C13_WritersReturn ==
    \A n \in Calls : IsSet(n) \/ IsRemove(n) => hist[n].st # "blocked"


\* C16: a set that fails because the file cannot be written returns the error
\* and has no effect a get can see: the get of the same key and scope right
\* after it returns what that get returned right before it, whether the file
\* can be read by then or not.
C16_FailedWriteUnseen ==
    \A n \in 2..(Len(hist) - 1) :
        (/\ IsSet(n) /\ hist[n].err = "write failed"
         /\ IsGet(n - 1) /\ IsGet(n + 1)
         /\ SameTarget(n - 1, n) /\ SameTarget(n, n + 1))
            => /\ hist[n].st = "err"
               /\ hist[n + 1].st = hist[n - 1].st
               /\ hist[n + 1].err = hist[n - 1].err
               /\ hist[n + 1].out = hist[n - 1].out


\* a get returns whose lazy load could not read the backing file, for a key
\* without environment override
GetReadFails ==
    /\ Returned /\ LastReturned.call.op = "get"
    /\ ~Override(LastReturned.call.key)
    /\ fileName # <<>> /\ (fault \/ file.t = "nofile")
    /\ ~settingDefaults /\ (cfg.t = "nilbuf" \/ dirty)

BufferEmpty == Text(cfg) = EmptyBuf

\* the get asks, without scope argument, for the key of a definition with a
\* default that C2 says is returned
AsksForDefault(j) ==
    /\ LastReturned.call.key = fields[j].Key /\ LastReturned.call.scope = Empty
    /\ fields[j].Default.t # "nil"
    /\ MatchesNoOther(j) /\ DefaultsPass

\* the buffer is left as it was when it held a document, and no error of the
\* read is returned
ProceedsFromBuffer ==
    /\ LastReturned.err \in {"", "no value found", "write failed"}
    /\ ~BufferEmpty => Text(cfg') = Text(cfg) /\ LastReturned.st \in {"ok", "err"}

\* C17 as stated: the get proceeds from the unchanged buffer, and from an
\* empty buffer it returns the default of a key that has one.
C17_Original ==
    [][GetReadFails
          => /\ ProceedsFromBuffer
             /\ \A j \in 1..Len(fields) :
                    BufferEmpty /\ AsksForDefault(j)
                        => /\ LastReturned.st = "ok"
                           /\ LastReturned.out = RoundTrip(fields[j].Default)]_vars

\* C17 as amended: from an empty buffer the get returns the default when the
\* file can be written; when it cannot, writing the first default ends the
\* process, and nothing else does.
C17_ReadFailureIsSilent ==
    [][GetReadFails
          => /\ ProceedsFromBuffer
             /\ LastReturned.st = "fatal"
                    <=> /\ fault /\ BufferEmpty
                        /\ \E j \in 1..Len(fields) : fields[j].Default.t # "nil"
             /\ \A j \in 1..Len(fields) :
                    BufferEmpty /\ AsksForDefault(j) /\ ~fault
                        => /\ LastReturned.st = "ok"
                           /\ LastReturned.out = RoundTrip(fields[j].Default)]_vars

\* the first call, a get, found no file, wrote the defaults to a new file and
\* returned the default
C17_Witness ==
    /\ fileName # <<>> /\ Len(hist) = 1 /\ IsGet(1) /\ Ok(1) /\ ~hist[1].same
    /\ \E j \in 1..Len(fields) :
          /\ hist[1].call.key = fields[j].Key
          /\ hist[1].out = RoundTrip(fields[j].Default)
    /\ file = cfg


\* the key as GetWithScope and SetWithScope put it into the path
Canonical(key) ==
    LET i == getFieldDefinition(key)
    IN IF i # 0 /\ ~fields[i].CaseSensitive THEN fields[i].Key ELSE key

\* the value of the entry whose names are, literally, those of the resolved
\* path of the call, in the buffer the call leaves
LiteralEntry(call) ==
    gjsonGet(Text(cfg'), escapeWildcards(ResolvePath(call.scope, Canonical(call.key))))

\* C19: get, set and removeScope address the entry literally named by the
\* resolved path, also when a name holds * or ?: a get returns the value of
\* that entry or finds none, a set writes that entry, and a removeScope is
\* not refused because of the characters of the name.
C19_WildcardsAreLiteral ==
    [][Returned /\ LastReturned.st \in {"ok", "err"}
          => /\ (LastReturned.call.op = "get" /\ ~Override(LastReturned.call.key))
                   => IF LiteralEntry(LastReturned.call).exists
                      THEN /\ LastReturned.st = "ok"
                           /\ LastReturned.out
                                 = ResultValue(LiteralEntry(LastReturned.call).val)
                      ELSE LastReturned.err = "no value found"
             /\ (LastReturned.call.op = "set" /\ LastReturned.st = "ok")
                   => /\ LiteralEntry(LastReturned.call).exists
                      /\ LiteralEntry(LastReturned.call).val
                            = Marshal(LastReturned.call.value)
             /\ LastReturned.call.op = "removeScope"
                   => LastReturned.err \in {"", "write failed"}]_vars


\* key is a casing of the key of the case-insensitive definition fields[j]
CasingOf(key, j) == ~fields[j].CaseSensitive /\ EqualFold(key, fields[j].Key)

\* key differs in letter case only from the key of the case-sensitive
\* definition fields[j], and is the key of no definition
MiscasedOf(key, j) ==
    /\ fields[j].CaseSensitive /\ key # fields[j].Key /\ EqualFold(key, fields[j].Key)
    /\ getFieldDefinition(key) = 0

Steps(n) == 1..Len(hist[n].log)
At(n, ev) == {k \in Steps(n) : hist[n].log[k].ev = ev}

\* what a materialisation logs when it writes every default once, in the
\* order of registration, from the i-th definition on
RECURSIVE DefaultWrites(_)
DefaultWrites(i) ==
    IF i > Len(fields) THEN <<>>
    ELSE IF fields[i].Default.t = "nil" THEN DefaultWrites(i + 1)
    ELSE <<Event("set", i), Event("write", 0)>> \o DefaultWrites(i + 1)

\* the n-th call started a materialisation and returned
Materialised(n) == At(n, "defaults") # {} /\ hist[n].st \in {"ok", "err"}

InReadModifyWrite(t) ==
    \E k \in 1..Len(stack[t]) : stack[t][k].fn \in Writers /\ stack[t][k].at # "lock"

\* t waits in p.mu.Lock()
Waits(t) == In(t, Writers, "lock") /\ mu

\* C12: at most one goroutine is in the read-modify-write of a set or a
\* removeScope, it is the one that holds the lock, and a goroutine that has
\* called Lock while the lock is held does not move.
C12_OneWriter ==
    /\ [](/\ Cardinality({t \in Threads : InReadModifyWrite(t)}) <= 1
          /\ \A t \in Threads : InReadModifyWrite(t) => mu /\ holder = t)
    /\ [][\A t \in Threads : Waits(t) => stack'[t] = stack[t]]_vars

\* one goroutine has replaced the buffer and is about to write the file, the
\* other has called set or removeScope and waits for the lock
C12_Witness ==
    \E t, u \in Threads :
        /\ t # u
        /\ Len(stack[t]) = 1 /\ In(t, Writers, "persist")
        /\ Len(stack[u]) = 1 /\ Waits(u)

\* the step is one of goroutine t
Moves(t) == stack'[t] # stack[t]

\* C14: a goroutine in a get or a listScopes holds the lock in every step in
\* which it assigns the buffer or the dirty flag.
C14_ReadersAssignUnderLock ==
    [][\A t \in Threads :
          (/\ Moves(t) /\ stack[t] # <<>> /\ stack[t][1].fn \in Readers
           /\ (cfg' # cfg \/ dirty' # dirty))
             => mu /\ holder = t]_vars

\* a set of key, other than the n-th call, has returned or is under way
SetElsewhere(n, key) ==
    \/ \E m \in Calls : m # n /\ IsSet(m) /\ hist[m].call.key = key
    \/ \E t \in Threads : \E k \in 1..Len(stack[t]) :
          stack[t][k].fn = "SetWithScope" /\ stack[t][k].call.key = key

\* C15: with a backing file, once the only set of a key has returned success,
\* every get of the key that begins afterwards returns the value set, and the
\* file holds the value once a set of another key that began afterwards has
\* returned success.
C15_NoLostUpdate ==
    fileName # <<>> =>
        \A n \in Calls :
            (/\ IsSet(n) /\ Ok(n) /\ ~Override(hist[n].call.key)
             /\ ~SetElsewhere(n, hist[n].call.key))
               => /\ \A g \in Calls :
                        (/\ IsGet(g) /\ hist[g].began >= n
                         /\ hist[g].call.key = hist[n].call.key)
                           => Ok(g) /\ hist[g].out = RoundTrip(hist[n].call.value)
                  /\ \A w \in Calls :
                        (IsSet(w) /\ Ok(w) /\ w # n /\ hist[w].began >= n)
                           => gjsonGet(file, PathOf(hist[n].call))
                                 = Found(Marshal(hist[n].call.value))

=============================================================================
